---- MODULE Spec2Model ----
(***************************************************************************)
(* Model of the silence-cut job scheduler (JobQueueService): the job map,  *)
(* the pending queue, the active set, the in-flight processNext            *)
(* activations and the advance timers they arm.                            *)
(*                                                                         *)
(* A Job is a JavaScript object: processNext keeps a reference to it       *)
(* across its awaits, while addJob and cancelJob replace or drop the map   *)
(* entry.  The model therefore keeps the objects in a heap (one object     *)
(* per addJob call) and lets the map hold references into it.  An object    *)
(* that neither the map nor a suspended activation refers to any more is   *)
(* garbage; Collect gives it one canonical value.                          *)
(***************************************************************************)
EXTENDS Integers, Sequences, FiniteSets, Bags, TLC

\* ------------------------------------------------------------------ bounds
\* Largest number of addJob calls in one run.
MaxSubmits == 2
\* Largest number of addJob calls in a run that overlaps pipelines of one id.
WideSubmits == 3
\* Largest value of the clock (minutes).
MaxTime == 1
\* Largest number of addJob calls in a run whose clock moves.
TimedSubmits == 2
\* Largest number of addJob calls in a run that draws the error from every
\* text, and the most markers such a text includes.
ErrorSubmits == 1
MaxIncluded == 2
\* Interval lists: times are counted in half seconds.  A short list has at
\* most MaxLen intervals ending at MaxEnd or before; a long list has up to
\* MaxOver intervals more than the cap keeps.
MaxLen == 3
MaxEnd == 8
MaxOver == 2
\* Largest minGap argument of mergeSilences.
MaxGap == 4
\* A diagnostic stream holds at most MaxMarkers markers, with offsets from
\* -1 to MaxStamp (half seconds).
MaxMarkers == 4
MaxStamp == 3
\* Most files uploaded in a run of the controller.
MaxUploads == 1
\* Most jobs the controller adds in a run.
MaxAdmits == 2
\* Most requests the controller has under way at a time.
MaxOpen == 2

\* ------------------------------------------------------------ input domains
Ids == {"a", "b", "c"}
\* Values of MAX_CONCURRENT_JOBS the constructor may read (default 2).
Ceilings == {1, 2}
\* maxAgeMinutes arguments of clearOldJobs.  While the clock stands still
\* every record's age is 0: a threshold of -1 is then the call that removes
\* every Completed or Failed record, 0 and 1 the calls that remove none.
MaxAges == {-1, 0, 1}
\* The substrings the catch block of processNext looks for.  An error text
\* is modelled by the set of these substrings it includes.
Markers == {"FFmpeg", "memory", "timeout", "failed", "ENOMEM", "killed"}
\* What the engine wrote on stderr before it exited with a non-zero code.
Diagnostics == {{}, {"memory"}}

\* (mutant) the diagnostic text itself is the error
DetectSilencesCloseErrorRaw(stderrOutput) == stderrOutput

\* The error detectSilences rejects with when the engine exits with a
\* non-zero code: `FFmpeg silence detection failed with code ${code}`.  The
\* diagnostic text is logged, not passed on.
DetectSilencesCloseError(stderrOutput) == {"FFmpeg", "failed"}

\* The errors the catch block of processNext receives in a run of the
\* scheduler: one that includes none of the substrings (the engine could not
\* be launched), or the one of an engine that exited with a non-zero code.
\* ErrorSpec below draws the error from every text the block tells apart.
ErrorTexts ==
    {{}} \cup {DetectSilencesCloseError(stderrOutput) : stderrOutput \in Diagnostics}

\* --------------------------------------------------------------- constants
\* "no entry" of the job map
NoJob == 0
\* retry budget: `job.retries < 1`
RetryBudget == 1
\* job.error texts (accents dropped)
MsgMemory == "Video trop volumineuse pour etre traitee."
MsgTimeout == "Le traitement a pris trop de temps."
MsgGeneric == "Erreur lors du traitement de la video."
MsgMaxRetries == "Le traitement a echoue apres plusieurs tentatives."
MsgCancelled == "Job cancelled by user"
NoError == "none"
\* `mergeSilences(silences, 2.0)`: two seconds, in half seconds
PipelineMinGap == 4
\* `silences.length > 10`, `.slice(0, 10)`
CapLimit == 10
\* the quotient JavaScript gives for 0 / 0
NotANumber == "NaN"
\* no interval computation is under way
NoResult == [mode |-> "none", spawned |-> <<>>, originalDuration |-> 0,
             finalDuration |-> 0, timeSaved |-> 0, percentageSaved |-> 0,
             silencesRemoved |-> 0]
Idle == [stage |-> "idle", silences |-> <<>>, totalDuration |-> 0, minGap |-> 0,
         merged |-> <<>>, remerged |-> <<>>, capped |-> <<>>, segments |-> <<>>,
         stream |-> <<>>, result |-> NoResult]
\* the null getJobStatus returns
NoStatus == [null |-> TRUE]
\* no file was uploaded and no request is under way
NoHttp == [file |-> [i \in Ids |-> "none"],
           req |-> [i \in Ids |-> [found |-> 0, missing |-> 0]],
           deleting |-> {}]

VARIABLES
    maxConcurrentJobs,  \* the ceiling C, read once by the constructor
    heap,               \* the Job objects, in allocation order
    jobs,               \* Map<string, Job>: id -> index into heap, or NoJob
    queue,              \* string[]: the pending queue
    processing,         \* Set<string>: the active set
    pipes,              \* bag of suspended processNext activations
    timers,             \* FIFO of armed setTimeout(processNext, 100)
    now,                \* the clock, in minutes
    cancelled,          \* history: ids cancelJob found a record for
    starts,             \* history: per object, pipelines started on it
    calc,               \* the interval lists one pipeline run computes
    http                \* the stored files and the requests under way

vars == <<maxConcurrentJobs, heap, jobs, queue, processing, pipes, timers, now,
          cancelled, starts, calc, http>>

\* The scheduler's variables.
schedVars == <<maxConcurrentJobs, heap, jobs, queue, processing, pipes, timers,
               now, cancelled, starts>>

\* The scheduler's own state, passed through the operators below.
Sched == [heap |-> heap, jobs |-> jobs, queue |-> queue,
          processing |-> processing, pipes |-> pipes, started |-> NoJob]

\* ----------------------------------------------------------------- helpers
RemoveAt(s, i) == SubSeq(s, 1, i - 1) \o SubSeq(s, i + 1, Len(s))

\* Array.prototype.indexOf, 1-based; 0 when absent.
IndexOf(s, x) ==
    IF \E i \in 1..Len(s) : s[i] = x
    THEN CHOOSE i \in 1..Len(s) : s[i] = x /\ \A k \in 1..(i - 1) : s[k] # x
    ELSE 0

InQueue(q, x) == \E i \in 1..Len(q) : q[i] = x

\* ------------------------------------------------------ interval functions
\* A SilenceInterval as detectSilences builds it.
Silence(start, end) == [start |-> start, end |-> end, duration |-> end - start]

\* (mutant) no gap is small enough to merge across
GapBelowNever(gap, minGap) == gap < 0

\* (mutant) a gap equal to minGap is merged too
GapBelowInclusive(gap, minGap) == gap <= minGap

\* `if (gap < minGap)`
GapBelow(gap, minGap) == gap < minGap

\* The loop of mergeSilences from index i on (1-based), with the interval
\* being accumulated and the intervals pushed so far.
RECURSIVE MergeLoop(_, _, _, _, _)
MergeLoop(silences, i, current, merged, minGap) ==
    IF i > Len(silences) THEN Append(merged, current)
    ELSE LET next == silences[i]
             gap == next.start - current.end
         IN  IF GapBelow(gap, minGap)
             THEN MergeLoop(silences, i + 1, [current EXCEPT !.end = next.end],
                            merged, minGap)
             ELSE MergeLoop(silences, i + 1, next, Append(merged, current), minGap)

\* (mutant) the interval accumulated last is not pushed
MergeSilencesLosesLast(silences, minGap) ==
    IF Len(silences) = 0 THEN silences
    ELSE SubSeq(MergeLoop(silences, 2, silences[1], <<>>, minGap), 1,
                Len(MergeLoop(silences, 2, silences[1], <<>>, minGap)) - 1)

\* mergeSilences(silences, minGap)
MergeSilences(silences, minGap) ==
    IF Len(silences) = 0 THEN silences
    ELSE MergeLoop(silences, 2, silences[1], <<>>, minGap)

\* Array.prototype.sort with a comparator, which is stable: of two elements
\* the comparator does not order, the one that came first stays first.
StableSort(s, Before(_, _)) ==
    LET rank(i) == Cardinality({j \in 1..Len(s) :
                        \/ Before(s[j], s[i])
                        \/ ~Before(s[i], s[j]) /\ j < i})
    IN  [r \in 1..Len(s) |-> s[CHOOSE i \in 1..Len(s) : rank(i) = r - 1]]

\* (mutant) the shortest intervals come first
ByDurationAsc(a, b) == (a.end - a.start) < (b.end - b.start)

\* `(a, b) => (b.end - b.start) - (a.end - a.start)`
ByDurationDesc(a, b) == (a.end - a.start) > (b.end - b.start)

\* `(a, b) => a.start - b.start`
ByStart(a, b) == a.start < b.start

\* The cap step of processNext: the `limit` longest intervals, by time.
CapSilences(silences, limit) ==
    IF Len(silences) > limit
    THEN StableSort(SubSeq(StableSort(silences, ByDurationDesc), 1, limit), ByStart)
    ELSE silences

\* (mutant) a segment is pushed also when the silence starts where the
\* previous one ended
StartsAfterInclusive(start, currentStart) == start >= currentStart

\* `if (silence.start > currentStart)`
StartsAfter(start, currentStart) == start > currentStart

\* (mutant) the segment after the last silence is always pushed
ContentLeftAlways(currentStart, totalDuration) == currentStart <= totalDuration

\* `if (currentStart < totalDuration)`
ContentLeft(currentStart, totalDuration) == currentStart < totalDuration

\* The loop of buildKeepSegments from index i on, and its final test.
RECURSIVE KeepLoop(_, _, _, _, _)
KeepLoop(silences, i, currentStart, segments, totalDuration) ==
    IF i > Len(silences)
    THEN IF ContentLeft(currentStart, totalDuration)
         THEN Append(segments, [start |-> currentStart, end |-> totalDuration])
         ELSE segments
    ELSE LET silence == silences[i]
         IN  KeepLoop(silences, i + 1, silence.end,
                      IF StartsAfter(silence.start, currentStart)
                      THEN Append(segments, [start |-> currentStart,
                                             end |-> silence.start])
                      ELSE segments,
                      totalDuration)

\* buildKeepSegments(silences, totalDuration)
BuildKeepSegments(silences, totalDuration) ==
    KeepLoop(silences, 1, 0, <<>>, totalDuration)

\* ------------------------------------------------------ detection, removal
\* One `silence_start: t` or `silence_end: t` of the engine's stderr.
Marker(kind, t) == [kind |-> kind, t |-> t]

\* /silence_start: ([\d.]+)/g and /silence_end: ([\d.]+)/g: the offset must
\* begin with a digit or a dot, so a marker with a signed offset is not
\* matched.
Matches(m, kind) == m.kind = kind /\ m.t >= 0

\* The `while ((match = regex.exec(stderrOutput)) !== null)` loops: the
\* offsets of the matched markers of one kind, in the order of the text.
ParseMarkers(stream, kind) ==
    LET matched == SelectSeq(stream, LAMBDA m : Matches(m, kind))
    IN  [i \in 1..Len(matched) |-> matched[i].t]

Min(a, b) == IF a < b THEN a ELSE b

\* `for (let i = 0; i < Math.min(starts.length, ends.length); i++)`
PairSilences(startOffsets, endOffsets) ==
    [i \in 1..Min(Len(startOffsets), Len(endOffsets)) |->
        Silence(startOffsets[i], endOffsets[i])]

\* What detectSilences resolves with when the engine exits with code 0.
DetectSilencesReturns(stream) ==
    PairSilences(ParseMarkers(stream, "start"), ParseMarkers(stream, "end"))

\* (mutant) only an empty silence list is passed through
PassesThroughNoSilenceOnly(silences, segments) == Len(silences) = 0

\* removeSilences copies the file when `silences.length === 0` or
\* `segments.length === 0`
PassesThrough(silences, segments) == Len(silences) = 0 \/ Len(segments) = 0

\* What removeSilences resolves with.  `spawned` lists the engine
\* processes it started: copyFile runs `ffmpeg -i source -c copy -y
\* destination`, the cut runs ffmpeg with a filter graph and libx264/aac.
\* finalDuration is read back from the output in the second case only.
RemoveSilencesReturns(silences, totalDuration, finalDuration) ==
    LET segments == BuildKeepSegments(silences, totalDuration)
    IN  IF PassesThrough(silences, segments)
        THEN [mode |-> "copy", spawned |-> <<"stream copy">>,
              originalDuration |-> totalDuration,
              finalDuration |-> totalDuration,
              timeSaved |-> 0, percentageSaved |-> 0,
              silencesRemoved |-> Len(silences)]
        ELSE [mode |-> "cut", spawned |-> <<"filter and encode">>,
              originalDuration |-> totalDuration,
              finalDuration |-> finalDuration,
              timeSaved |-> totalDuration - finalDuration,
              percentageSaved |->
                  IF totalDuration = 0 THEN NotANumber
                  ELSE ((totalDuration - finalDuration) * 100) \div totalDuration,
              silencesRemoved |-> Len(silences)]

\* ------------------------------------------------------------- scheduler
\* (mutant) the new job starts with its retry budget spent
NewJobRetried(videoId, t) ==
    [videoId |-> videoId, status |-> "queued", progress |-> 0,
     retries |-> 1, error |-> NoError, result |-> FALSE, updatedAt |-> t]

\* The job object addJob builds.
NewJob(videoId, t) ==
    [videoId |-> videoId, status |-> "queued", progress |-> 0, retries |-> 0,
     error |-> NoError, result |-> FALSE, updatedAt |-> t]

\* (mutant) the ceiling test off by one
CanAcceptNewJobOffByOne(active, ceiling) == Cardinality(active) <= ceiling

\* canAcceptNewJob()
CanAcceptNewJob(active, ceiling) == Cardinality(active) < ceiling

\* (mutant) the id goes to the front of the queue
EnqueueFront(q, videoId) == <<videoId>> \o q

\* this.queue.push(videoId)
Enqueue(q, videoId) == Append(q, videoId)

\* (mutant) the id taken is the last of the queue
QueueLast(q) == q[Len(q)]

\* the id this.queue.shift() returns
QueueHead(q) == Head(q)

\* (mutant) the test misses the kill signal
IsProcessingErrorNoKilled(text) ==
    \/ "FFmpeg" \in text
    \/ "memory" \in text
    \/ "timeout" \in text
    \/ "failed" \in text
    \/ "ENOMEM" \in text

\* the catch block's isProcessingError
IsProcessingError(text) ==
    \/ "FFmpeg" \in text
    \/ "memory" \in text
    \/ "timeout" \in text
    \/ "failed" \in text
    \/ "ENOMEM" \in text
    \/ "killed" \in text

\* (mutant) the timeout test comes first
UserMessageTimeoutFirst(text) ==
    IF "timeout" \in text \/ "killed" \in text THEN MsgTimeout
    ELSE IF "memory" \in text \/ "ENOMEM" \in text THEN MsgMemory
    ELSE MsgGeneric

\* the user-facing message of a processing error
UserMessage(text) ==
    IF "memory" \in text \/ "ENOMEM" \in text THEN MsgMemory
    ELSE IF "timeout" \in text \/ "killed" \in text THEN MsgTimeout
    ELSE MsgGeneric

\* (mutant) one retry too many
CanRetryTwice(job) == job.retries < RetryBudget + 1

\* `job.retries < 1`
CanRetry(job) == job.retries < RetryBudget

\* processNext(), up to its first await.  s.started is the object whose
\* pipeline this call started, NoJob when it started none.
ProcessNext(s, ceiling, t) ==
    IF ~CanAcceptNewJob(s.processing, ceiling) \/ Len(s.queue) = 0
    THEN [s EXCEPT !.started = NoJob]
    ELSE LET videoId == QueueHead(s.queue)
             rest == Tail(s.queue)
             j == s.jobs[videoId]
         IN  IF j = NoJob
             THEN [s EXCEPT !.queue = rest, !.started = NoJob]
             ELSE [s EXCEPT
                     !.queue = rest,
                     !.processing = @ \cup {videoId},
                     !.heap[j] = [@ EXCEPT !.status = "processing",
                                           !.progress = 10,
                                           !.updatedAt = t],
                     !.pipes = @ (+) SetToBag({[job |-> j, phase |-> "detect"]}),
                     !.started = j]

\* The catch block of processNext, applied to the activation's own object.
\* Returns the object and whether its id is pushed back on the queue.
OnError(job, text, t) ==
    IF IsProcessingError(text)
    THEN [job |-> [job EXCEPT !.status = "failed", !.error = UserMessage(text),
                              !.updatedAt = t],
          requeue |-> FALSE]
    ELSE IF CanRetry(job)
    THEN [job |-> [job EXCEPT !.retries = @ + 1, !.status = "queued",
                              !.progress = 0, !.updatedAt = t],
          requeue |-> TRUE]
    ELSE [job |-> [job EXCEPT !.status = "failed", !.error = MsgMaxRetries,
                              !.updatedAt = t],
          requeue |-> FALSE]

\* The statements after `await removeSilences(...)` succeeds.
OnSuccess(job, t) ==
    [job EXCEPT !.progress = 100, !.status = "completed", !.result = TRUE,
                !.updatedAt = t]

\* (mutant) the finally block forgets the active set
ReleaseNothing(active, videoId) == active

\* The finally block: the id leaves the active set.
Release(active, videoId) == active \ {videoId}

\* (mutant) the sweep forgets the status test
IsOldAnyStatus(job, maxAgeMinutes, t) == (t - job.updatedAt) > maxAgeMinutes

\* (mutant) the age test is not strict
IsOldInclusive(job, maxAgeMinutes, t) ==
    /\ job.status \in {"completed", "failed"}
    /\ (t - job.updatedAt) >= maxAgeMinutes

\* clearOldJobs' test on one record
IsOld(job, maxAgeMinutes, t) ==
    /\ job.status \in {"completed", "failed"}
    /\ (t - job.updatedAt) > maxAgeMinutes

\* An object nothing refers to any more: neither the map nor a suspended
\* activation.  Only its id is kept.
Released(videoId) ==
    [videoId |-> videoId, status |-> "released", progress |-> 0, retries |-> 0,
     error |-> NoError, result |-> FALSE, updatedAt |-> 0]

Referenced(j, map, bag) ==
    \/ \E i \in Ids : map[i] = j
    \/ \E p \in BagToSet(bag) : p.job = j

Collect(h, map, bag) ==
    [j \in 1..Len(h) |->
        IF Referenced(j, map, bag) THEN h[j] ELSE Released(h[j].videoId)]

\* ------------------------------------------------------------------- state
Init ==
    /\ maxConcurrentJobs \in Ceilings
    /\ heap = <<>>
    /\ jobs = [i \in Ids |-> NoJob]
    /\ queue = <<>>
    /\ processing = {}
    /\ pipes = EmptyBag
    /\ timers = <<>>
    /\ now = 0
    /\ cancelled = {}
    /\ starts = <<>>
    /\ calc = Idle
    /\ http = NoHttp

\* The state an operation leaves, and the start it made (if any) counted.
Install(s, startsNow) ==
    /\ heap' = Collect(s.heap, s.jobs, s.pipes)
    /\ jobs' = s.jobs
    /\ queue' = s.queue
    /\ processing' = s.processing
    /\ pipes' = s.pipes
    /\ starts' = IF s.started = NoJob THEN startsNow
                 ELSE [startsNow EXCEPT ![s.started] = @ + 1]

\* Ids are interchangeable: a run takes its new ids in the order of IdOrder.
Used == {heap[j].videoId : j \in 1..Len(heap)}
IdOrder == <<"a", "b", "c">>
Fresh(videoId) ==
    \/ videoId \in Used
    \/ \E k \in 1..Len(IdOrder) :
          /\ IdOrder[k] = videoId
          /\ \A m \in 1..(k - 1) : IdOrder[m] \in Used

\* What a call of addJob(videoId, inputPath) does to the scheduler.
AddJobCall(videoId) ==
    /\ LET j == Len(heap) + 1
           s0 == [Sched EXCEPT !.heap = Append(heap, NewJob(videoId, now)),
                               !.jobs[videoId] = j,
                               !.queue = Enqueue(queue, videoId)]
       IN  Install(ProcessNext(s0, maxConcurrentJobs, now), Append(starts, 0))
    /\ UNCHANGED <<maxConcurrentJobs, timers, now, cancelled>>

\* addJob(videoId, inputPath), called on the service itself, in a run of at
\* most `most` such calls
AddJobWithin(videoId, most) ==
    /\ Len(heap) < most
    /\ Fresh(videoId)
    /\ AddJobCall(videoId)
    /\ UNCHANGED <<calc, http>>

AddJob(videoId) == AddJobWithin(videoId, MaxSubmits)

\* The callback of setTimeout(() => this.processNext(), 100).  Timers of one
\* delay run in the order they were armed.
Advance ==
    /\ Len(timers) > 0
    /\ Install(ProcessNext(Sched, maxConcurrentJobs, now), starts)
    /\ timers' = Tail(timers)
    /\ UNCHANGED <<calc, http, maxConcurrentJobs, now, cancelled>>

\* `await detectSilences` resolves; merge and cap run; progress = 50; the
\* activation suspends again on removeSilences.
DetectDone(p) ==
    /\ BagIn(p, pipes)
    /\ p.phase = "detect"
    /\ heap' = [heap EXCEPT ![p.job].progress = 50]
    /\ pipes' = (pipes (-) SetToBag({p})) (+) SetToBag({[p EXCEPT !.phase = "remove"]})
    /\ UNCHANGED <<calc, http, maxConcurrentJobs, jobs, queue, processing, timers, now,
                   cancelled, starts>>

\* The end of an activation: its object became `job`, its id was pushed
\* back on the queue or not, and the finally block runs.  The timer records
\* whether the queue held an id when it was armed.
Finish(p, job, requeue) ==
    /\ pipes' = pipes (-) SetToBag({p})
    /\ heap' = Collect([heap EXCEPT ![p.job] = job], jobs, pipes')
    /\ queue' = IF requeue THEN Enqueue(queue, job.videoId) ELSE queue
    /\ processing' = Release(processing, job.videoId)
    /\ timers' = Append(timers, Len(queue') > 0)
    /\ UNCHANGED <<calc, http, maxConcurrentJobs, jobs, now, cancelled, starts>>

\* `await removeSilences` resolves.
RemoveDone(p) ==
    /\ BagIn(p, pipes)
    /\ p.phase = "remove"
    /\ Finish(p, OnSuccess(heap[p.job], now), FALSE)

\* (mutant) a rejection of detectSilences is swallowed and the activation
\* goes on to removeSilences
FailSwallowed(p, text) ==
    /\ BagIn(p, pipes)
    /\ p.phase = "detect"
    /\ heap' = [heap EXCEPT ![p.job].progress = 50]
    /\ pipes' = (pipes (-) SetToBag({p})) (+) SetToBag({[p EXCEPT !.phase = "remove"]})
    /\ UNCHANGED <<calc, http, maxConcurrentJobs, jobs, queue, processing, timers, now,
                   cancelled, starts>>

\* Either await rejects with an error whose text includes `text`.
Fail(p, text) ==
    /\ BagIn(p, pipes)
    /\ LET r == OnError(heap[p.job], text, now)
       IN  Finish(p, r.job, r.requeue)

\* getStatusMessage(job) (accents dropped)
GetStatusMessage(job) ==
    CASE job.status = "queued" -> "Video en file d'attente..."
      [] job.status = "processing" ->
            IF job.progress < 50 THEN "Detection des silences en cours..."
            ELSE "Suppression des silences en cours..."
      [] job.status = "completed" -> "Traitement termine avec succes !"
      [] job.status = "failed" -> "Le traitement a echoue"
      [] OTHER -> ""

\* (mutant) the snapshot reports the progress of a queued job
GetJobStatusReturnsNoProgress(videoId) ==
    IF jobs[videoId] = NoJob THEN NoStatus
    ELSE LET job == heap[jobs[videoId]]
         IN  [videoId |-> job.videoId, status |-> job.status, progress |-> 0,
              message |-> GetStatusMessage(job), error |-> job.error,
              result |-> job.result, updatedAt |-> job.updatedAt]

\* The value getJobStatus(videoId) returns: null, or an object built from
\* the fields of the record.
GetJobStatusReturns(videoId) ==
    IF jobs[videoId] = NoJob THEN NoStatus
    ELSE LET job == heap[jobs[videoId]]
         IN  [videoId |-> job.videoId, status |-> job.status,
              progress |-> job.progress, message |-> GetStatusMessage(job),
              error |-> job.error, result |-> job.result,
              updatedAt |-> job.updatedAt]

\* getJobStatus(videoId): it reads the map and the record and writes
\* nothing.
GetJobStatus(videoId) == UNCHANGED vars

\* (mutant) a job that is processing keeps its record
CancelJobCallKeepsRunning(videoId) ==
    /\ LET j == jobs[videoId]
           queueIndex == IndexOf(queue, videoId)
       IN  IF j = NoJob \/ heap[j].status = "processing"
           THEN UNCHANGED <<heap, jobs, queue, cancelled>>
           ELSE /\ queue' = IF queueIndex > 0 THEN RemoveAt(queue, queueIndex)
                            ELSE queue
                /\ jobs' = [jobs EXCEPT ![videoId] = NoJob]
                /\ heap' = Collect(heap, jobs', pipes)
                /\ cancelled' = cancelled \cup {videoId}
    /\ UNCHANGED <<maxConcurrentJobs, processing, pipes, timers, now, starts>>

\* What a call of cancelJob(videoId) does to the scheduler.
CancelJobCall(videoId) ==
    /\ LET j == jobs[videoId]
           queueIndex == IndexOf(queue, videoId)
       IN  IF j = NoJob
           THEN UNCHANGED <<heap, jobs, queue, cancelled>>
           ELSE /\ queue' = IF queueIndex > 0 THEN RemoveAt(queue, queueIndex)
                            ELSE queue
                /\ jobs' = [jobs EXCEPT ![videoId] = NoJob]
                /\ heap' = Collect(IF heap[j].status = "processing"
                                   THEN [heap EXCEPT ![j].status = "failed",
                                                     ![j].error = MsgCancelled]
                                   ELSE heap,
                                   jobs', pipes)
                /\ cancelled' = cancelled \cup {videoId}
    /\ UNCHANGED <<maxConcurrentJobs, processing, pipes, timers, now, starts>>

\* cancelJob(videoId), called on the service itself
CancelJob(videoId) ==
    /\ CancelJobCall(videoId)
    /\ UNCHANGED <<calc, http>>

\* clearOldJobs(maxAgeMinutes)
ClearOldJobs(maxAgeMinutes) ==
    /\ LET old == {i \in Ids : jobs[i] # NoJob
                               /\ IsOld(heap[jobs[i]], maxAgeMinutes, now)}
       IN  jobs' = [i \in Ids |-> IF i \in old THEN NoJob ELSE jobs[i]]
    /\ heap' = Collect(heap, jobs', pipes)
    /\ UNCHANGED <<calc, http, maxConcurrentJobs, queue, processing, pipes, timers, now,
                   cancelled, starts>>

\* A minute passes.  Spec keeps the clock at rest; only a timed run takes this step.
Tick ==
    /\ now < MaxTime
    /\ now' = now + 1
    /\ UNCHANGED <<calc, http, maxConcurrentJobs, heap, jobs, queue, processing, pipes, timers,
                   cancelled, starts>>

Next ==
    \/ \E videoId \in Ids : AddJob(videoId)
    \/ Advance
    \/ \E p \in BagToSet(pipes) : DetectDone(p)
    \/ \E p \in BagToSet(pipes) : RemoveDone(p)
    \/ \E p \in BagToSet(pipes), text \in ErrorTexts : Fail(p, text)
    \/ \E videoId \in Ids : CancelJob(videoId)
    \/ \E maxAgeMinutes \in MaxAges : ClearOldJobs(maxAgeMinutes)
    \/ \E videoId \in Ids : GetJobStatus(videoId)

Spec == Init /\ [][Next]_vars

\* Runs of up to WideSubmits addJob calls in which every engine invocation
\* succeeds and nothing is cancelled or swept: enough for the pipelines of
\* one id to overlap under the default ceiling.
OverlapNext ==
    \/ \E videoId \in Ids : AddJobWithin(videoId, WideSubmits)
    \/ Advance
    \/ \E p \in BagToSet(pipes) : DetectDone(p)
    \/ \E p \in BagToSet(pipes) : RemoveDone(p)

OverlapSpec == Init /\ [][OverlapNext]_vars

\* The same scheduler with a running clock, for what depends on the age of
\* a record.  A timed run has at most TimedSubmits addJob calls.
TimedNext ==
    \/ \E videoId \in Ids : Len(heap) < TimedSubmits /\ AddJob(videoId)
    \/ Advance
    \/ \E p \in BagToSet(pipes) : DetectDone(p)
    \/ \E p \in BagToSet(pipes) : RemoveDone(p)
    \/ \E p \in BagToSet(pipes), text \in ErrorTexts : Fail(p, text)
    \/ \E videoId \in Ids : CancelJob(videoId)
    \/ \E maxAgeMinutes \in MaxAges : ClearOldJobs(maxAgeMinutes)
    \/ \E videoId \in Ids : GetJobStatus(videoId)
    \/ Tick

TimedSpec == Init /\ [][TimedNext]_vars

\* The same scheduler, at most ErrorSubmits addJob calls, with the error
\* texts the catch block can tell apart: any set of at most MaxIncluded of
\* its markers.
AllTexts == {text \in SUBSET Markers : Cardinality(text) <= MaxIncluded}

ErrorNext ==
    \/ \E videoId \in Ids : AddJobWithin(videoId, ErrorSubmits)
    \/ Advance
    \/ \E p \in BagToSet(pipes) : DetectDone(p)
    \/ \E p \in BagToSet(pipes) : RemoveDone(p)
    \/ \E p \in BagToSet(pipes), text \in AllTexts : Fail(p, text)
    \/ \E videoId \in Ids : CancelJob(videoId)
    \/ \E maxAgeMinutes \in MaxAges : ClearOldJobs(maxAgeMinutes)

ErrorSpec == Init /\ [][ErrorNext]_vars

\* ------------------------------------------------- the interval functions
\* What detectSilences hands on: intervals of positive length, ordered by
\* start, none beginning before the previous one ends.
IsSilenceList(s) ==
    /\ \A i \in 1..Len(s) : s[i].start < s[i].end
    /\ \A i \in 1..(Len(s) - 1) : s[i].end <= s[i + 1].start

Points == 0..MaxEnd
Intervals == {Silence(a, b) : <<a, b>> \in {x \in Points \X Points : x[1] < x[2]}}

\* Every silence list of at most `most` intervals within 0..MaxEnd.
ShortLists(most) ==
    UNION {{s \in [1..n -> Intervals] : IsSilenceList(s)} : n \in 0..most}

\* Lists longer than the cap keeps: interval i begins at 4 * (i - 1) and
\* lasts 1 or 2, so that gaps are 2 or 3 and durations tie.
LongLists(over) ==
    UNION {{[i \in 1..n |-> Silence(4 * (i - 1), 4 * (i - 1) + d[i])] :
                d \in [1..n -> {1, 2}]} :
           n \in (CapLimit + 1)..(CapLimit + over)}

\* Total durations the metadata may report for a list: any for the empty
\* list; otherwise one that cuts the last silence short, the end of the
\* last silence, and one beyond every silence.
TotalDurations(s) ==
    IF Len(s) = 0 THEN 0..(MaxEnd + 1)
    ELSE IF Len(s) <= MaxLen
    THEN {s[Len(s)].end - 1, s[Len(s)].end, MaxEnd + 1}
    ELSE {s[Len(s)].end + 2}

MinGaps == 0..MaxGap

IntervalInit ==
    /\ maxConcurrentJobs = 2
    /\ heap = <<>>
    /\ jobs = [i \in Ids |-> NoJob]
    /\ queue = <<>>
    /\ processing = {}
    /\ pipes = EmptyBag
    /\ timers = <<>>
    /\ now = 0
    /\ cancelled = {}
    /\ starts = <<>>
    /\ http = NoHttp
    /\ \E s \in ShortLists(MaxLen) \cup LongLists(MaxOver), d \in 0..(4 * (CapLimit + MaxOver) + 2) :
          /\ d \in TotalDurations(s)
          /\ calc = [Idle EXCEPT !.stage = "detected", !.silences = s,
                                 !.totalDuration = d]

\* mergeSilences(silences, minGap)
Merge(minGap) ==
    /\ calc.stage = "detected"
    /\ calc' = [calc EXCEPT !.stage = "merged", !.minGap = minGap,
                            !.merged = MergeSilences(calc.silences, minGap)]
    /\ UNCHANGED <<schedVars, http>>

\* mergeSilences applied to its own result
MergeAgain ==
    /\ calc.stage = "merged"
    /\ calc' = [calc EXCEPT !.stage = "remerged",
                            !.remerged = MergeSilences(calc.merged, calc.minGap)]
    /\ UNCHANGED <<schedVars, http>>

\* the cap step of processNext
Cap ==
    /\ calc.stage = "remerged"
    /\ calc' = [calc EXCEPT !.stage = "capped",
                            !.capped = CapSilences(calc.merged, CapLimit)]
    /\ UNCHANGED <<schedVars, http>>

\* buildKeepSegments(silences, metadata.duration)
Keep ==
    /\ calc.stage = "capped"
    /\ calc' = [calc EXCEPT !.stage = "kept",
                            !.segments = BuildKeepSegments(calc.capped,
                                                           calc.totalDuration)]
    /\ UNCHANGED <<schedVars, http>>

RECURSIVE KeptLength(_)
KeptLength(segments) ==
    IF segments = <<>> THEN 0
    ELSE (Head(segments).end - Head(segments).start) + KeptLength(Tail(segments))

\* removeSilences(inputPath, outputPath, silences) on the capped list.  The
\* engine process it starts exits with `code`; the output of a cut lasts
\* as long as the segments kept.
Remove(code) ==
    /\ calc.stage = "kept"
    /\ calc' = IF code = 0
               THEN [calc EXCEPT !.stage = "removed",
                                 !.result = RemoveSilencesReturns(
                                                calc.capped, calc.totalDuration,
                                                KeptLength(calc.segments))]
               ELSE [calc EXCEPT !.stage = "rejected"]
    /\ UNCHANGED <<schedVars, http>>

IntervalNext ==
    \/ \E minGap \in MinGaps : Merge(minGap)
    \/ MergeAgain
    \/ Cap
    \/ Keep
    \/ \E code \in {0, 1} : Remove(code)

IntervalSpec == IntervalInit /\ [][IntervalNext]_vars

\* The diagnostic streams: every sequence of at most `most` markers.
Stamps == (0 - 1)..MaxStamp
StreamMarkers == {Marker(k, t) : k \in {"start", "end"}, t \in Stamps}
Streams(most) == UNION {[1..n -> StreamMarkers] : n \in 0..most}

\* The engine has exited with code 0 and left its diagnostic stream.
DetectInit ==
    /\ maxConcurrentJobs = 2
    /\ heap = <<>>
    /\ jobs = [i \in Ids |-> NoJob]
    /\ queue = <<>>
    /\ processing = {}
    /\ pipes = EmptyBag
    /\ timers = <<>>
    /\ now = 0
    /\ cancelled = {}
    /\ starts = <<>>
    /\ http = NoHttp
    /\ \E stream \in Streams(MaxMarkers) :
          calc = [Idle EXCEPT !.stage = "closed", !.stream = stream,
                              !.totalDuration = MaxStamp + 1]

\* the close handler of detectSilences, code 0
Detect ==
    /\ calc.stage = "closed"
    /\ calc' = [calc EXCEPT !.stage = "detected",
                            !.silences = DetectSilencesReturns(calc.stream)]
    /\ UNCHANGED <<schedVars, http>>

\* Detection, then the pipeline of processNext: merge with a gap of two
\* seconds, cap, keep segments.
DetectNext ==
    \/ Detect
    \/ Merge(PipelineMinGap)
    \/ MergeAgain
    \/ Cap
    \/ Keep

DetectSpec == DetectInit /\ [][DetectNext]_vars

\* ------------------------------------------------------- the controller
\* VideosController in front of the scheduler.  http.file[id] is the state
\* of the original file of id: "none" (never stored), "stored", "deleted".
\* http.req[id] counts the process requests for id that sleep their two
\* seconds, by the value `exists` took: found or missing.
\* http.deleting holds the ids whose delete request has cancelled the job
\* and not yet unlinked the files.
Uploaded == {i \in Ids : http.file[i] # "none"}
Sleeping(id) == http.req[id].found + http.req[id].missing
RECURSIVE SleepingIn(_)
SleepingIn(S) ==
    IF S = {} THEN 0
    ELSE LET i == CHOOSE x \in S : TRUE IN Sleeping(i) + SleepingIn(S \ {i})
Open == SleepingIn(Ids) + Cardinality(http.deleting)

\* upload(): saveUploadedFile stores the file under a new uuid;
\* validateVideo accepts it, or the file is deleted again.  New uuids are
\* taken in the order of IdOrder.
Upload(id, valid) ==
    /\ Cardinality(Uploaded) < MaxUploads
    /\ http.file[id] = "none"
    /\ \E k \in 1..Len(IdOrder) :
          /\ IdOrder[k] = id
          /\ \A m \in 1..(k - 1) : IdOrder[m] \in Uploaded
    /\ http' = [http EXCEPT !.file[id] = IF valid THEN "stored" ELSE "deleted"]
    /\ UNCHANGED <<schedVars, calc>>

\* fileStorage.fileExists(inputPath): stat succeeds
FileExists(file) == file = "stored"

\* process(), up to `await new Promise(resolve => setTimeout(resolve, 2000))`
ProcessBegin(id) ==
    /\ Open < MaxOpen
    /\ http' = IF FileExists(http.file[id])
               THEN [http EXCEPT !.req[id].found = @ + 1]
               ELSE [http EXCEPT !.req[id].missing = @ + 1]
    /\ UNCHANGED <<schedVars, calc>>

\* (mutant) a record that is queued or processing does not stop the request
HasLiveRecordCompletedOnly(status) ==
    /\ status # NoStatus
    /\ status.status = "completed"

\* `existingJob` is completed, processing or queued
HasLiveRecord(status) ==
    /\ status # NoStatus
    /\ status.status \in {"completed", "processing", "queued"}

\* (mutant) the load value is not looked at
LoadGateOpen(overloaded) == FALSE

\* `cpuLoad > 90`
LoadGate(overloaded) == overloaded

\* The answers process() gives without calling addJob: 404 for a file not
\* found, the status of a record that is completed, processing or queued,
\* 503 under load or at the ceiling.
ProcessDeclines(id, exists, overloaded) ==
    \/ ~exists
    \/ HasLiveRecord(GetJobStatusReturns(id))
    \/ LoadGate(overloaded)
    \/ ~CanAcceptNewJob(processing, maxConcurrentJobs)

\* process(), from the end of its two seconds to its response, for a
\* request that read `exists`.  `overloaded` is cpuLoad > 90.
ProcessResume(id, exists, overloaded) ==
    /\ IF exists THEN http.req[id].found > 0 ELSE http.req[id].missing > 0
    /\ http' = IF exists THEN [http EXCEPT !.req[id].found = @ - 1]
               ELSE [http EXCEPT !.req[id].missing = @ - 1]
    /\ IF ProcessDeclines(id, exists, overloaded)
       THEN UNCHANGED schedVars
       ELSE AddJobCall(id)
    /\ UNCHANGED calc

\* (mutant) the status of the record is not tested
DownloadReturnsAnyStatus(id, processedExists) ==
    LET jobStatus == GetJobStatusReturns(id)
    IN  IF jobStatus = NoStatus THEN 404
        ELSE IF ~processedExists THEN 404
        ELSE 200

\* download(): 404 without a record, 400 unless completed, then the
\* processed file is streamed (200) if it is in storage, 404 if not
DownloadReturns(id, processedExists) ==
    LET jobStatus == GetJobStatusReturns(id)
    IN  IF jobStatus = NoStatus THEN 404
        ELSE IF jobStatus.status # "completed" THEN 400
        ELSE IF ~processedExists THEN 404
        ELSE 200

\* download() writes nothing
Download(id) == UNCHANGED vars

\* status(): 404 'Job not found' without a record, else 200
StatusReturns(id) == IF GetJobStatusReturns(id) = NoStatus THEN 404 ELSE 200

\* delete(), up to `await this.fileStorage.deleteFile(videoId)`
DeleteBegin(id) ==
    /\ Open < MaxOpen
    /\ id \notin http.deleting
    /\ CancelJobCall(id)
    /\ http' = [http EXCEPT !.deleting = @ \cup {id}]
    /\ UNCHANGED calc

\* deleteFile(uuid): the original is unlinked, a missing file is ignored
DeleteUnlink(id) ==
    /\ id \in http.deleting
    /\ http' = [http EXCEPT !.deleting = @ \ {id},
                            !.file[id] = IF @ = "stored" THEN "deleted" ELSE @]
    /\ UNCHANGED <<schedVars, calc>>

ControllerInit ==
    /\ Init
    /\ maxConcurrentJobs = 2

\* At most MaxAdmits jobs are added in a run.
ControllerNext ==
    \/ \E id \in Ids, valid \in BOOLEAN : Upload(id, valid)
    \/ \E id \in Ids : ProcessBegin(id)
    \/ \E id \in Ids, exists \in BOOLEAN, overloaded \in BOOLEAN :
          /\ ProcessDeclines(id, exists, overloaded) \/ Len(heap) < MaxAdmits
          /\ ProcessResume(id, exists, overloaded)
    \/ \E id \in Ids : DeleteBegin(id)
    \/ \E id \in Ids : DeleteUnlink(id)
    \/ Advance
    \/ \E p \in BagToSet(pipes) : DetectDone(p)
    \/ \E p \in BagToSet(pipes) : RemoveDone(p)
    \/ \E p \in BagToSet(pipes), text \in ErrorTexts : Fail(p, text)

ControllerSpec == ControllerInit /\ [][ControllerNext]_vars

\* Three videos are in storage and a process request for each was issued
\* at the same moment: all three sleep their two seconds.
BurstInit ==
    /\ maxConcurrentJobs = 2
    /\ heap = <<>>
    /\ jobs = [i \in Ids |-> NoJob]
    /\ queue = <<>>
    /\ processing = {}
    /\ pipes = EmptyBag
    /\ timers = <<>>
    /\ now = 0
    /\ cancelled = {}
    /\ starts = <<>>
    /\ calc = Idle
    /\ http = [file |-> [i \in Ids |-> "stored"],
               req |-> [i \in Ids |-> [found |-> 1, missing |-> 0]],
               deleting |-> {}]

BurstNext ==
    \/ \E id \in Ids, overloaded \in BOOLEAN : ProcessResume(id, TRUE, overloaded)
    \/ \E id \in Ids : Download(id)
    \/ Advance
    \/ \E p \in BagToSet(pipes) : DetectDone(p)
    \/ \E p \in BagToSet(pipes) : RemoveDone(p)
    \/ \E p \in BagToSet(pipes), text \in ErrorTexts : Fail(p, text)

BurstSpec == BurstInit /\ [][BurstNext]_vars

\* ------------------------------------------------------- derived notions
RECURSIVE SumSeq(_)
SumSeq(s) == IF s = <<>> THEN 0 ELSE Head(s) + SumSeq(Tail(s))

\* pipelines started so far, and those that have ended
TotalStarts == SumSeq(starts)
InFlight == BagCardinality(pipes)
Ended == TotalStarts - InFlight

ObjectsOf(id) == {j \in 1..Len(heap) : heap[j].videoId = id}
Submitted(id) == ObjectsOf(id) # {}
Resubmitted(id) == Cardinality(ObjectsOf(id)) > 1
FirstObject(id) == CHOOSE j \in ObjectsOf(id) : \A k \in ObjectsOf(id) : j <= k
SubmittedBefore(a, b) ==
    Submitted(a) /\ Submitted(b) /\ FirstObject(a) < FirstObject(b)
Started(id) == \E j \in ObjectsOf(id) : starts[j] > 0

HasRecord(id) == jobs[id] # NoJob
Record(id) == heap[jobs[id]]
StatusOf(id) == IF HasRecord(id) THEN Record(id).status ELSE "absent"

\* No id was cancelled or passed to addJob twice.
PlainRun == cancelled = {} /\ \A id \in Ids : ~Resubmitted(id)

\* ------------------------------------------------------------------- C1
\* C1: in every reachable state the active set holds at most C ids, and a
\* step adds an id to the active set only when its size was below C.
C1_Invariant == Cardinality(processing) <= maxConcurrentJobs

C1_Ceiling ==
    /\ []C1_Invariant
    /\ [][(processing' \ processing) # {}
            => Cardinality(processing) < maxConcurrentJobs]_vars

\* The ceiling is reached while a job waits.
C1_Witness ==
    /\ Cardinality(processing) = maxConcurrentJobs
    /\ Len(queue) > 0
    /\ \A id \in Ids : InQueue(queue, id) => id \notin processing

\* ------------------------------------------------------------------- C2
\* C2: at any instant the number of pipelines in flight is at most C, also
\* when an id is submitted again while its earlier pipeline still runs.
C2_InFlightBounded == InFlight <= maxConcurrentJobs

\* ------------------------------------------------------------------- C3
\* C3: a job id is never in the pending queue and in the active set at once.
C3_QueueActiveDisjoint ==
    \A id \in Ids : ~(InQueue(queue, id) /\ id \in processing)

\* ------------------------------------------------------------------- C4
\* C4: from an idle scheduler, after C+1 addJob calls with distinct ids and
\* before any pipeline ends, exactly C jobs are Processing (in the active
\* set) and exactly one is Queued (in the pending queue).
C4_Submitted ==
    /\ Len(heap) = maxConcurrentJobs + 1
    /\ PlainRun
    /\ Ended = 0

C4_CeilingPlusOne ==
    C4_Submitted =>
        /\ Cardinality(processing) = maxConcurrentJobs
        /\ Cardinality({id \in Ids : StatusOf(id) = "processing"}) = maxConcurrentJobs
        /\ \A id \in Ids : StatusOf(id) = "processing" <=> id \in processing
        /\ Len(queue) = 1
        /\ Cardinality({id \in Ids : StatusOf(id) = "queued"}) = 1
        /\ StatusOf(queue[1]) = "queued"
        /\ InFlight = maxConcurrentJobs

C4_Witness == C4_Submitted /\ InFlight = maxConcurrentJobs

\* ------------------------------------------------------------------- C5
\* What one run of processNext can do to the scheduler.
Eligible ==
    /\ Cardinality(processing) < maxConcurrentJobs
    /\ Len(queue) > 0
    /\ HasRecord(Head(queue))

PromotesHead ==
    /\ Len(queue) > 0
    /\ HasRecord(Head(queue))
    /\ queue' = Tail(queue)
    /\ processing' = processing \cup {Head(queue)}
    /\ jobs' = jobs
    /\ heap'[jobs[Head(queue)]].status = "processing"
    /\ \A j \in 1..Len(heap) : j # jobs[Head(queue)] => heap'[j] = heap[j]
    /\ pipes' = pipes (+) SetToBag({[job |-> jobs[Head(queue)], phase |-> "detect"]})

PromotesNone ==
    /\ pipes' = pipes
    /\ processing' = processing
    /\ heap' = heap
    /\ jobs' = jobs

\* C5 (as stated): when a pipeline ends while the pending queue is
\* non-empty, the advance armed by that end promotes exactly one Queued
\* job, the head of the queue.  Stated for runs without cancels and
\* without repeated ids.
C5_Original ==
    [][(Advance /\ Head(timers) /\ PlainRun) => PromotesHead]_vars

\* C5 (amended): an advance promotes the head of the queue, and nothing
\* else, when at the moment it runs the active set is below C, the queue
\* is non-empty and the head id has a record; otherwise it promotes nothing.
C5_AdvancePromotesHead ==
    [][Advance => IF Eligible THEN PromotesHead ELSE PromotesNone]_vars

\* More pipelines were started than addJob was called: an advance promoted.
C5_Witness ==
    /\ TotalStarts > Len(heap)
    /\ Len(heap) >= 2
    /\ InFlight > 0

\* ------------------------------------------------------------------- C6
\* No id was passed to addJob twice.
NoRepeat == \A id \in Ids : ~Resubmitted(id)

PipelineStep ==
    \E p \in BagToSet(pipes) :
        DetectDone(p) \/ RemoveDone(p) \/ \E text \in ErrorTexts : Fail(p, text)

\* Every engine invocation returns and every armed timer runs.
FairSpec == Spec /\ WF_vars(Advance) /\ WF_vars(PipelineStep)

\* C6: every submitted job that is never cancelled eventually reaches
\* Completed or Failed, and the queue never stays non-empty for ever while
\* a slot is free and no advance is pending.  Stated for runs in which no
\* id is submitted twice.
C6_Liveness ==
    /\ \A id \in Ids :
         (StatusOf(id) \in {"queued", "processing"} /\ id \notin cancelled) ~>
             (\/ StatusOf(id) \in {"completed", "failed"}
              \/ id \in cancelled
              \/ ~NoRepeat)
    /\ []<>~(/\ NoRepeat
             /\ Len(queue) > 0
             /\ Cardinality(processing) < maxConcurrentJobs
             /\ Len(timers) = 0)

\* ------------------------------------------------------------------- C7
Edge(from, to) ==
    \/ from = to
    \/ <<from, to>> \in {<<"queued", "processing">>, <<"processing", "completed">>,
                         <<"processing", "failed">>, <<"processing", "queued">>}

\* C7: every change of a job record's status follows Queued->Processing,
\* Processing->Completed, Processing->Failed or Processing->Queued, so a
\* Completed or Failed record never changes status again.
C7_StatusEdges ==
    [][\A id \in Ids :
          (HasRecord(id) /\ jobs'[id] = jobs[id])
              => Edge(heap[jobs[id]].status, heap'[jobs[id]].status)]_vars

\* ------------------------------------------------------------------- C8
\* The step is the catch block re-queueing the id of record `id`.
Requeues(id) ==
    /\ HasRecord(id)
    /\ jobs'[id] = jobs[id]
    /\ Record(id).status = "processing"
    /\ heap'[jobs[id]].status = "queued"

\* C8: of two jobs neither of which is cancelled, the one submitted first
\* enters Processing first; a re-queued job goes to the tail of the queue.
C8_FifoInvariant ==
    \A a, b \in Ids :
        (SubmittedBefore(a, b) /\ a \notin cancelled /\ b \notin cancelled)
            => (Started(b) => Started(a))

C9_RetryThenFail ==
    [][\A p \in BagToSet(pipes), text \in ErrorTexts :
          (/\ Fail(p, text)
           /\ text \cap Markers = {}
           /\ jobs[heap[p.job].videoId] = p.job)
          =>
          /\ heap[p.job].retries = 0 =>
               /\ heap'[p.job].status = "queued"
               /\ heap'[p.job].retries = 1
               /\ heap'[p.job].progress = 0
               /\ queue' = Append(queue, heap[p.job].videoId)
          /\ heap[p.job].retries >= 1 =>
               /\ heap'[p.job].status = "failed"
               /\ heap'[p.job].error = MsgMaxRetries
               /\ heap'[p.job].retries = heap[p.job].retries
               /\ queue' = queue]_vars

\* A job failed for good after its one retry.
C9_Witness ==
    \E id \in Ids :
        /\ StatusOf(id) = "failed"
        /\ Record(id).error = MsgMaxRetries
        /\ Record(id).retries = 1
        /\ ~InQueue(queue, id)

\* ------------------------------------------------------------------ C10
\* C10: a job's attempt counter never exceeds the retry budget of 1, and a
\* job whose id is submitted once has its pipeline started at most twice.
C10_AttemptsBounded ==
    \A j \in 1..Len(heap) :
        /\ heap[j].retries <= 1
        /\ ~Resubmitted(heap[j].videoId) => starts[j] <= 2

\* A job used its whole budget while another id was cancelled.
C10_Witness ==
    \E j \in 1..Len(heap) :
        /\ starts[j] = 2
        /\ heap[j].retries = 1
        /\ ~Resubmitted(heap[j].videoId)
        /\ \E id \in cancelled : id # heap[j].videoId

\* ------------------------------------------------------------------ C11
\* C11: a pipeline failure whose error text contains a permanent-failure
\* marker sets the job Failed at once, whatever its attempt count: the id
\* is not pushed back on the queue and the attempt count is unchanged.
C11_PermanentFailsAtOnce ==
    [][\A p \in BagToSet(pipes), text \in AllTexts :
          (/\ Fail(p, text)
           /\ text \cap Markers # {}
           /\ jobs[heap[p.job].videoId] = p.job)
          =>
          /\ heap'[p.job].status = "failed"
          /\ heap'[p.job].error \in {MsgMemory, MsgTimeout, MsgGeneric}
          /\ heap'[p.job].retries = heap[p.job].retries
          /\ heap'[p.job].progress = heap[p.job].progress
          /\ queue' = queue]_vars

\* A retried job failed for good on a marked error, with its budget
\* unspent a second time.
C11_Witness ==
    \E id \in Ids :
        /\ StatusOf(id) = "failed"
        /\ Record(id).error = MsgTimeout
        /\ Record(id).retries = 1
        /\ ~InQueue(queue, id)

\* ------------------------------------------------------------------ C12
\* The step is the catch block handling the rejection of detectSilences
\* after the engine exited with a non-zero code and wrote `stderrOutput`,
\* for an activation whose object the map still holds.
DetectExitFails(p, stderrOutput) ==
    /\ p.phase = "detect"
    /\ jobs[heap[p.job].videoId] = p.job
    /\ Fail(p, DetectSilencesCloseError(stderrOutput))

\* C12 (as stated): when the detection engine exits with a non-zero code
\* and its diagnostic text contains no permanent-failure marker, the
\* failure is transient: on the job's first attempt the job is re-queued
\* once instead of being set Failed.
C12_Original ==
    [][\A p \in BagToSet(pipes), stderrOutput \in Diagnostics :
          (/\ DetectExitFails(p, stderrOutput)
           /\ stderrOutput \cap Markers = {}
           /\ heap[p.job].retries = 0)
          =>
          /\ heap'[p.job].status = "queued"
          /\ heap'[p.job].retries = 1
          /\ queue' = Append(queue, heap[p.job].videoId)]_vars

\* C12 (amended): when the detection engine exits with a non-zero code the
\* job is set Failed at once with the generic message, whatever the
\* diagnostic text and the attempt count; it is not re-queued.
C12_DetectExitIsPermanent ==
    [][\A p \in BagToSet(pipes), stderrOutput \in Diagnostics :
          DetectExitFails(p, stderrOutput)
          =>
          /\ heap'[p.job].status = "failed"
          /\ heap'[p.job].error = MsgGeneric
          /\ heap'[p.job].retries = heap[p.job].retries
          /\ queue' = queue]_vars

\* A first attempt failed for good during detection (progress still 10).
C12_Witness ==
    \E id \in Ids :
        /\ StatusOf(id) = "failed"
        /\ Record(id).error = MsgGeneric
        /\ Record(id).progress = 10
        /\ Record(id).retries = 0
        /\ ~InQueue(queue, id)

\* ------------------------------------------------------------------ C13
\* The step is the end of activation p: removeSilences resolved, or either
\* await rejected.
PipelineEnds(p) == RemoveDone(p) \/ \E text \in ErrorTexts : Fail(p, text)

\* C13: whenever a pipeline started by processNext ends, by success or by
\* a failure of either phase, its job is left Completed, Failed or Queued
\* (never Processing), its id is removed from the active set, and exactly
\* one further advance is armed.  A job the map dropped meanwhile is no
\* record any more.
C13_EndSettlesJob ==
    [][\A p \in BagToSet(pipes) :
          PipelineEnds(p)
          =>
          /\ heap'[p.job].status \in {"completed", "failed", "queued", "released"}
          /\ jobs[heap[p.job].videoId] = p.job
                => /\ jobs'[heap[p.job].videoId] = p.job
                   /\ heap'[p.job].status \in {"completed", "failed", "queued"}
          /\ heap[p.job].videoId \notin processing'
          /\ Len(timers') = Len(timers) + 1
          /\ BagCardinality(pipes') = BagCardinality(pipes) - 1]_vars

\* Two pipelines ended, one for good and one re-queued, and an advance is
\* armed.
C13_Witness ==
    \E a, b \in Ids :
        /\ StatusOf(a) \in {"completed", "failed"}
        /\ StatusOf(b) = "queued" /\ Record(b).retries = 1
        /\ processing = {}
        /\ InFlight = 0
        /\ Len(timers) > 0

\* ------------------------------------------------------------------ C14
\* C14: clearOldJobs never removes a job that is Queued or Processing,
\* whatever its age and whatever maxAgeMinutes is, and it leaves the
\* pending queue and the active set unchanged.
C14_SweepSparesLiveJobs ==
    [][\A maxAgeMinutes \in MaxAges :
          ClearOldJobs(maxAgeMinutes)
          =>
          /\ \A id \in Ids :
                StatusOf(id) \in {"queued", "processing"}
                    => /\ jobs'[id] = jobs[id]
                       /\ heap'[jobs[id]] = heap[jobs[id]]
          /\ queue' = queue
          /\ processing' = processing
          /\ pipes' = pipes]_vars

\* A sweep removed the record of one id and left the record of a job that
\* has been Queued or Processing for a minute, older than any threshold
\* at which the sweep removes something.
C14_Witness ==
    \E a, b \in Ids :
        /\ Submitted(a) /\ ~HasRecord(a) /\ a \notin cancelled
        /\ StatusOf(b) \in {"queued", "processing"}
        /\ now - Record(b).updatedAt = MaxTime
        /\ SubmittedBefore(a, b)

\* ------------------------------------------------------------------ C15
\* The value clearOldJobs returns: `cleared`, incremented once per record
\* the loop deletes.
RECURSIVE ClearedUpTo(_, _)
ClearedUpTo(k, maxAgeMinutes) ==
    IF k = 0 THEN 0
    ELSE ClearedUpTo(k - 1, maxAgeMinutes)
           + (IF /\ jobs[IdOrder[k]] # NoJob
                 /\ IsOld(heap[jobs[IdOrder[k]]], maxAgeMinutes, now)
              THEN 1 ELSE 0)

ClearOldJobsReturns(maxAgeMinutes) == ClearedUpTo(Len(IdOrder), maxAgeMinutes)

\* C15: clearOldJobs(maxAgeMinutes) removes exactly the records that are
\* Completed or Failed and whose time since last update is strictly
\* greater than maxAgeMinutes, keeps every other record, and returns the
\* number of records it removed.
C15_SweepExact ==
    [][\A maxAgeMinutes \in MaxAges :
          ClearOldJobs(maxAgeMinutes)
          =>
          LET removed == {id \in Ids : HasRecord(id) /\ jobs'[id] = NoJob}
          IN  /\ \A id \in Ids :
                    HasRecord(id) =>
                        (id \in removed <=>
                            /\ Record(id).status \in {"completed", "failed"}
                            /\ now - Record(id).updatedAt > maxAgeMinutes)
              /\ \A id \in Ids \ removed :
                    /\ jobs'[id] = jobs[id]
                    /\ HasRecord(id) => heap'[jobs[id]] = heap[jobs[id]]
              /\ ClearOldJobsReturns(maxAgeMinutes) = Cardinality(removed)]_vars

\* A sweep removed the record of one id, and a record that reached
\* Completed or Failed in the last minute is kept.
C15_Witness ==
    \E a, b \in Ids :
        /\ Submitted(a) /\ ~HasRecord(a) /\ a \notin cancelled
        /\ StatusOf(b) \in {"completed", "failed"}
        /\ now = MaxTime
        /\ Record(b).updatedAt = now

\* ------------------------------------------------------------------ C16
\* The id was cancelled and addJob was called for it only once, before
\* the cancel.
CancelledForGood(id) == id \in cancelled /\ ~Resubmitted(id)

\* C16: after cancelJob(id) returns and until addJob(id) is called again,
\* getJobStatus(id) returns null, id is not in the pending queue and no
\* pipeline is started for id: a job cancelled while Queued never enters
\* Processing and a job cancelled while Processing is never re-queued.
C16_CancelledStaysOut ==
    /\ [](\A id \in Ids :
            CancelledForGood(id) =>
                /\ ~HasRecord(id)
                /\ ~InQueue(queue, id))
    /\ [][\A id \in Ids, j \in 1..Len(heap) :
            (CancelledForGood(id) /\ heap[j].videoId = id)
                => starts'[j] = starts[j]]_vars

\* ------------------------------------------------------------------ C17
\* C17: addJob(id, input) always leaves exactly one record for id, a fresh
\* job with attempt count 0, no error and no result, which is Queued at
\* the tail of the pending queue, or Processing if it was admitted at
\* once; also when a record for id existed, which is overwritten.
C17_AddJobLeavesFreshRecord ==
    [][\A videoId \in Ids :
          AddJob(videoId)
          =>
          LET j == Len(heap) + 1
          IN  /\ jobs'[videoId] = j
              /\ Len(heap') = j
              /\ heap'[j].videoId = videoId
              /\ heap'[j].retries = 0
              /\ heap'[j].error = NoError
              /\ heap'[j].result = FALSE
              /\ \/ /\ heap'[j].status = "queued"
                    /\ heap'[j].progress = 0
                    /\ Len(queue') > 0
                    /\ queue'[Len(queue')] = videoId
                    /\ starts'[j] = 0
                 \/ /\ heap'[j].status = "processing"
                    /\ Cardinality(processing) < maxConcurrentJobs
                    /\ videoId \in processing'
                    /\ starts'[j] = 1
                    /\ BagIn([job |-> j, phase |-> "detect"], pipes')]_vars

\* The last addJob overwrote the record of an id whose pipeline is still
\* running, and the new job waits at the tail of the queue.
C17_Witness ==
    \E id \in Ids :
        /\ Resubmitted(id)
        /\ id \notin cancelled
        /\ jobs[id] = Len(heap)
        /\ StatusOf(id) = "queued"
        /\ Record(id).retries = 0
        /\ Len(queue) > 0
        /\ queue[Len(queue)] = id
        /\ \E p \in BagToSet(pipes) : heap[p.job].videoId = id /\ starts[p.job] > 0

\* ------------------------------------------------------------------ C18
\* C18: getJobStatus(id) changes no scheduler state (job records, pending
\* queue, active set); it returns null exactly when no record for id
\* exists, and otherwise a snapshot whose status and progress equal the
\* record's, also while that job's pipeline is in flight.
C18_ReturnInvariant ==
    \A id \in Ids :
        /\ GetJobStatusReturns(id) = NoStatus <=> ~HasRecord(id)
        /\ HasRecord(id) =>
              /\ GetJobStatusReturns(id).videoId = id
              /\ GetJobStatusReturns(id).status = Record(id).status
              /\ GetJobStatusReturns(id).progress = Record(id).progress

C18_ReadOnlyStatus ==
    /\ []C18_ReturnInvariant
    /\ [][\A id \in Ids :
            GetJobStatus(id)
                => UNCHANGED <<heap, jobs, queue, processing, pipes, timers>>]_vars

\* One job is read half-way through its pipeline, and the id of a job
\* cancelled while its pipeline runs reads as null.
C18_Witness ==
    \E a, b \in Ids :
        /\ GetJobStatusReturns(a) # NoStatus
        /\ GetJobStatusReturns(a).status = "processing"
        /\ GetJobStatusReturns(a).progress = 50
        /\ \E p \in BagToSet(pipes) : p.job = jobs[a] /\ p.phase = "remove"
        /\ GetJobStatusReturns(b) = NoStatus
        /\ b \in cancelled
        /\ \E p \in BagToSet(pipes) : heap[p.job].videoId = b

\* ------------------------------------------------------------------ C19
\* The step starts a pipeline on object j (processNext dequeued its id), or
\* re-queues it.
Dequeues(j) == starts'[j] = starts[j] + 1
RequeuesObject(j) == heap'[j].status = "queued" /\ heap'[j].retries = heap[j].retries + 1

\* C19: a job's progress is always one of 0, 10, 50, 100 and never
\* decreases within a single attempt; it is reset to 0 only when the job
\* is re-queued or dequeued, and every Queued record has progress 0.
C19_Progress ==
    /\ [](\A id \in Ids :
            HasRecord(id) =>
                /\ Record(id).progress \in {0, 10, 50, 100}
                /\ Record(id).status = "queued" => Record(id).progress = 0)
    /\ [][\A id \in Ids :
            (/\ HasRecord(id)
             /\ jobs'[id] = jobs[id]
             /\ heap'[jobs[id]].progress < heap[jobs[id]].progress)
                => Dequeues(jobs[id]) \/ RequeuesObject(jobs[id])]_vars

\* ------------------------------------------------------------------ C20
\* C20: in every reachable state a job record has a result only if its
\* status is Completed, and its progress is 100 if and only if its status
\* is Completed; a Queued, Processing or Failed record carries no result.
C20_ResultOnlyWhenCompleted ==
    \A id \in Ids :
        HasRecord(id) =>
            /\ Record(id).result => Record(id).status = "completed"
            /\ Record(id).progress = 100 <=> Record(id).status = "completed"

\* ------------------------------------------------------------------ C21
\* Activations on object j that have called removeSilences and await it.
InRemovePhase(bag, j) == CopiesIn([job |-> j, phase |-> "remove"], bag)

\* C21: within every attempt the transformation phase is invoked only
\* after the detection phase of the same attempt has succeeded and the
\* reduction has run (progress 50); if detection fails, transformation is
\* never invoked in that attempt: the activation ends.
C21_DetectBeforeRemove ==
    [][/\ \A j \in 1..Len(heap') :
            InRemovePhase(pipes', j) > InRemovePhase(pipes, j)
                => /\ j <= Len(heap)
                   /\ BagIn([job |-> j, phase |-> "detect"], pipes)
                   /\ DetectDone([job |-> j, phase |-> "detect"])
                   /\ heap'[j].progress = 50
                   /\ InRemovePhase(pipes', j) = InRemovePhase(pipes, j) + 1
       /\ \A p \in BagToSet(pipes), text \in ErrorTexts :
            (p.phase = "detect" /\ Fail(p, text))
                => /\ InRemovePhase(pipes', p.job) = InRemovePhase(pipes, p.job)
                   /\ CopiesIn(p, pipes') = CopiesIn(p, pipes) - 1
                   /\ BagCardinality(pipes') = BagCardinality(pipes) - 1]_vars

\* One attempt awaits the transformation after its detection succeeded,
\* and another job's attempt ended in detection (Failed at progress 10).
C21_Witness ==
    \E a, b \in Ids :
        /\ a # b
        /\ HasRecord(a) /\ InRemovePhase(pipes, jobs[a]) = 1
        /\ Record(a).progress = 50
        /\ StatusOf(b) = "failed"
        /\ Record(b).progress = 10
        /\ \A p \in BagToSet(pipes) : p.job # jobs[b]

\* ------------------------------------------------------------------ C22
\* The activations in flight for id, and those that hold object j.
PipelinesOf(id) ==
    BagCardinality([p \in {q \in BagToSet(pipes) : heap[q.job].videoId = id}
                       |-> pipes[p]])
PipelinesOn(j) ==
    BagCardinality([p \in {q \in BagToSet(pipes) : q.job = j} |-> pipes[p]])

\* C22: for every job id at most one pipeline is in flight at any time, so
\* the fields of one job record are never written by two concurrently
\* running pipelines, under any interleaving of addJob, cancelJob and
\* pipeline completions.
C22_OnePipelinePerId ==
    /\ \A id \in Ids : PipelinesOf(id) <= 1
    /\ \A j \in 1..Len(heap) : PipelinesOn(j) <= 1

\* ------------------------------------------------------------------ C23
\* The guard of processNext sends it back at once.
AtCeiling == Cardinality(processing) >= maxConcurrentJobs

\* C23: processNext called while the active set is at the ceiling or while
\* the pending queue is empty changes nothing: job records, pending queue
\* and active set are unchanged and the call arms no further advance.
\* The call is the callback of a timer, or the last statement of addJob.
C23_GuardedAdvanceIsNoOp ==
    [][/\ (Advance /\ (AtCeiling \/ Len(queue) = 0))
            => /\ UNCHANGED <<heap, jobs, queue, processing, pipes, starts>>
               /\ timers' = Tail(timers)
       /\ \A videoId \in Ids :
            (AddJob(videoId) /\ AtCeiling)
                => /\ queue' = Append(queue, videoId)
                   /\ processing' = processing
                   /\ pipes' = pipes
                   /\ timers' = timers
                   /\ \A id \in Ids \ {videoId} : jobs'[id] = jobs[id]
                   /\ \A j \in 1..Len(heap) :
                        Referenced(j, jobs', pipes) => heap'[j] = heap[j]]_vars

\* The only job ran to completion and the advance its end had armed has
\* run, on an empty queue.
C23_Witness ==
    /\ Len(heap) = 1
    /\ StatusOf(heap[1].videoId) = "completed"
    /\ Record(heap[1].videoId).retries = 0
    /\ Ended = 1
    /\ Len(timers) = 0
    /\ Len(queue) = 0

\* ------------------------------------------------------------------ C24
\* Notions on interval lists, from the start and end of each interval.
Ordered(s) == \A i \in 1..(Len(s) - 1) : s[i].start <= s[i + 1].start
NonOverlapping(s) == \A i \in 1..(Len(s) - 1) : s[i].end <= s[i + 1].start
GapsAtLeast(s, minGap) ==
    \A i \in 1..(Len(s) - 1) : s[i + 1].start - s[i].end >= minGap
Covers(m, s) ==
    \A i \in 1..Len(s) :
        \E k \in 1..Len(m) : m[k].start <= s[i].start /\ s[i].end <= m[k].end
RECURSIVE TotalCovered(_)
TotalCovered(s) ==
    IF s = <<>> THEN 0 ELSE (Head(s).end - Head(s).start) + TotalCovered(Tail(s))

HasMerged == calc.stage \in {"merged", "remerged", "capped", "kept"}

\* C24: for any list of intervals ordered by start and non-overlapping,
\* mergeSilences returns intervals that are ordered by start,
\* non-overlapping and separated by gaps of at least minGap, that cover
\* every moment the input covers, and whose total covered duration is at
\* least the input's; empty input gives empty output and a single interval
\* is returned unchanged.
C24_MergeCovers ==
    HasMerged =>
        /\ Ordered(calc.merged)
        /\ NonOverlapping(calc.merged)
        /\ \A k \in 1..Len(calc.merged) : calc.merged[k].start < calc.merged[k].end
        /\ GapsAtLeast(calc.merged, calc.minGap)
        /\ Covers(calc.merged, calc.silences)
        /\ TotalCovered(calc.merged) >= TotalCovered(calc.silences)
        /\ Len(calc.silences) = 0 => calc.merged = <<>>
        /\ Len(calc.silences) = 1 => calc.merged = calc.silences

\* Three intervals became two: the first two were merged across a gap,
\* the third stayed apart.
C24_Witness ==
    /\ HasMerged
    /\ Len(calc.silences) = 3
    /\ Len(calc.merged) = 2
    /\ calc.silences[2].start - calc.silences[1].end > 0
    /\ calc.merged[1].end = calc.silences[2].end
    /\ TotalCovered(calc.merged) > TotalCovered(calc.silences)

\* ------------------------------------------------------------------ C25
HasRemerged == calc.stage \in {"remerged", "capped", "kept"}

\* C25: mergeSilences is idempotent: for every ordered, non-overlapping
\* input and every minGap, mergeSilences(mergeSilences(s, minGap), minGap)
\* equals mergeSilences(s, minGap).
C25_MergeIdempotent == HasRemerged => calc.remerged = calc.merged

\* The first merge changed the list, the second did not.
C25_Witness ==
    /\ HasRemerged
    /\ Len(calc.silences) = MaxLen
    /\ Len(calc.merged) = 2
    /\ calc.minGap > 1
    /\ calc.remerged = calc.merged
    /\ calc.merged # calc.silences

\* ------------------------------------------------------------------ C26
\* The places where the list is cut: after interval i when the next one
\* starts minGap or more after the end accumulated so far, which for an
\* ordered, non-overlapping list is the end of interval i.
Breaks(s, minGap) ==
    {i \in 1..(Len(s) - 1) : s[i + 1].start - s[i].end >= minGap}

\* [(2,3),(3.5,4)] in half seconds
ExampleSilences == <<Silence(4, 6), Silence(7, 8)>>

\* C26: mergeSilences coalesces two consecutive intervals exactly when
\* next.start - current.end is strictly less than minGap (a gap equal to
\* minGap keeps them separate), comparing against the end of the interval
\* being accumulated; [(2,3),(3.5,4)] with minGap 2 gives [(2,4)].
C26_MergeExactlyBelowGap ==
    (HasMerged /\ Len(calc.silences) > 0) =>
        LET s == calc.silences
            m == calc.merged
        IN  /\ Len(m) = 1 + Cardinality(Breaks(s, calc.minGap))
            /\ m[1].start = s[1].start
            /\ m[Len(m)].end = s[Len(s)].end
            /\ \A i \in 1..(Len(s) - 1) :
                  i \in Breaks(s, calc.minGap) <=>
                      \E k \in 1..(Len(m) - 1) :
                          m[k].end = s[i].end /\ m[k + 1].start = s[i + 1].start
            /\ (s = ExampleSilences /\ calc.minGap = PipelineMinGap)
                  => Len(m) = 1 /\ m[1].start = 4 /\ m[1].end = 8

\* The example, merged; the duration field is still that of (2,3).
C26_Witness ==
    /\ calc.stage = "merged"
    /\ calc.silences = ExampleSilences
    /\ calc.minGap = PipelineMinGap
    /\ calc.merged = <<[start |-> 4, end |-> 8, duration |-> 2]>>

\* ------------------------------------------------------------------ C27
HasCapped == calc.stage \in {"capped", "kept"}

\* The positions of the input the cap step kept.
KeptOf(m, c) == {i \in 1..Len(m) : \E k \in 1..Len(c) : c[k] = m[i]}
Length(x) == x.end - x.start

\* C27: the cap step returns at most 10 intervals; an input of at most 10
\* intervals is returned unchanged; otherwise it keeps the 10 intervals of
\* greatest duration (end - start), ties going to the earliest start, and
\* returns them ordered by start ascending, so 12 intervals lose exactly
\* their two shortest.
C27_CapKeepsLongest ==
    HasCapped =>
        LET m == calc.merged
            c == calc.capped
        IN  /\ Len(c) <= 10
            /\ Len(m) <= 10 => c = m
            /\ Len(m) > 10 =>
                  /\ Len(c) = 10
                  /\ Cardinality(KeptOf(m, c)) = 10
                  /\ \A k \in 1..(Len(c) - 1) : c[k].start < c[k + 1].start
                  /\ \A i \in KeptOf(m, c), j \in (1..Len(m)) \ KeptOf(m, c) :
                        \/ Length(m[i]) > Length(m[j])
                        \/ Length(m[i]) = Length(m[j]) /\ m[i].start < m[j].start
            /\ Len(m) = 12 => Len(c) = 10 /\ Cardinality(KeptOf(m, c)) = 10

\* Twelve intervals lost two of the shortest, neither of them the last
\* of the list, and a tie was settled for the earlier interval.
C27_Witness ==
    /\ HasCapped
    /\ Len(calc.merged) = 12
    /\ Len(calc.capped) = 10
    /\ 12 \in KeptOf(calc.merged, calc.capped)
    /\ 1 \in KeptOf(calc.merged, calc.capped)
    /\ \E i \in KeptOf(calc.merged, calc.capped) :
         \E j \in (1..12) \ KeptOf(calc.merged, calc.capped) :
            Length(calc.merged[i]) = Length(calc.merged[j]) /\ i < j

\* ------------------------------------------------------------------ C28
\* The half second [t, t + 1) lies in some interval of the list.
InSome(s, t) == \E k \in 1..Len(s) : s[k].start <= t /\ t + 1 <= s[k].end

\* The silences lie within [0, D).
Within(s, totalDuration) == \A k \in 1..Len(s) : 0 <= s[k].start /\ s[k].end <= totalDuration

\* C28: for any ordered, non-overlapping silence list lying within [0, D),
\* buildKeepSegments returns segments that are ordered, each of positive
\* length, pairwise disjoint and disjoint from every silence, and whose
\* union together with the union of the silences is exactly [0, D).
C28_KeepSegmentsPartition ==
    (calc.stage = "kept" /\ Within(calc.capped, calc.totalDuration)) =>
        LET sil == calc.capped
            seg == calc.segments
            D == calc.totalDuration
        IN  /\ \A k \in 1..Len(seg) :
                  0 <= seg[k].start /\ seg[k].start < seg[k].end /\ seg[k].end <= D
            /\ \A k \in 1..(Len(seg) - 1) : seg[k].end <= seg[k + 1].start
            /\ \A t \in 0..(D - 1) :
                  /\ InSome(seg, t) <=> ~InSome(sil, t)
                  /\ Cardinality({k \in 1..Len(seg) :
                        seg[k].start <= t /\ t + 1 <= seg[k].end}) <= 1
            /\ \A k \in 1..Len(seg), i \in 1..Len(sil) :
                  seg[k].end <= sil[i].start \/ sil[i].end <= seg[k].start

\* Three silences, two of them touching, cut the input into three kept
\* segments: before the first, between the second and third, after the
\* last.
C28_Witness ==
    /\ calc.stage = "kept"
    /\ Len(calc.capped) = 3
    /\ calc.capped[1].start > 0
    /\ calc.capped[1].end = calc.capped[2].start
    /\ calc.capped[2].end < calc.capped[3].start
    /\ calc.capped[3].end < calc.totalDuration
    /\ Len(calc.segments) = 3

\* ------------------------------------------------------------------ C29
\* buildKeepSegments was applied to the empty silence list.
KeptOfNoSilence == calc.stage = "kept" /\ calc.capped = <<>>

\* C29 (as stated): for an empty silence list and any total duration
\* D >= 0, buildKeepSegments returns the single segment (0, D), e.g.
\* [(0,30)] for D = 30.
C29_Original ==
    KeptOfNoSilence =>
        calc.segments = <<[start |-> 0, end |-> calc.totalDuration]>>

\* C29 (amended): for an empty silence list buildKeepSegments returns the
\* single segment (0, D) when D > 0, and no segment when D = 0.
C29_WholeWhenPositive ==
    KeptOfNoSilence =>
        /\ calc.totalDuration > 0
              => calc.segments = <<[start |-> 0, end |-> calc.totalDuration]>>
        /\ calc.totalDuration = 0 => calc.segments = <<>>

\* No silence in an input of positive length: one segment, the whole.
C29_Witness ==
    /\ KeptOfNoSilence
    /\ calc.totalDuration = MaxEnd + 1
    /\ Len(calc.segments) = 1
    /\ calc.segments[1].end = calc.totalDuration

\* ---------------------------------------------------------------------
\* C30: a job whose input file is missing never reaches Processing: no
\* pipeline is started for an id whose original file is not in storage at
\* the moment of the start.
StartedNow(j) == starts'[j] > (IF j <= Len(starts) THEN starts[j] ELSE 0)
C30_MissingInputNeverStarts ==
    [][\A j \in 1..Len(starts') :
            StartedNow(j) => FileExists(http'.file[heap'[j].videoId])]_vars

\* ---------------------------------------------------------------------
\* C31: of three process requests issued together with ceiling 2, the one
\* that resumes while the active set is full is answered 503 and leaves
\* the scheduler as it was: no record and no queue entry is created for
\* it, so it is not held as a queued job.
Full == Cardinality(processing) = maxConcurrentJobs
ResumesAtCeiling(id) ==
    /\ Full
    /\ ~HasLiveRecord(GetJobStatusReturns(id))
    /\ ProcessResume(id, TRUE, FALSE)
Answered(id) == Sleeping(id)' = Sleeping(id) - 1
C32_LiveRecordNotResubmitted ==
    [][\A id \in Ids :
            (Answered(id) /\ StatusOf(id) \in {"queued", "processing", "completed"})
                => UNCHANGED <<heap, jobs, queue>>]_vars

\* Two requests for one id slept at the same time; one was answered by
\* adding the job, the other is about to resume on the live record.
C32_Witness ==
    \E id \in Ids :
        /\ http.req[id].found = 1
        /\ StatusOf(id) = "processing"
        /\ Cardinality(ObjectsOf(id)) = 1
        /\ Len(heap) = 1
        /\ http.deleting = {}

\* ---------------------------------------------------------------------
\* C33: download streams the processed file (200) only for an id whose
\* record exists with status completed; without a record it answers 404,
\* and with a queued, processing or failed record 400, whether or not a
\* processed file is in storage.
C33_DownloadOnlyCompleted ==
    \A id \in Ids, processedExists \in BOOLEAN :
        /\ DownloadReturns(id, processedExists) = 200
              => StatusOf(id) = "completed"
        /\ StatusOf(id) = "absent"
              => DownloadReturns(id, processedExists) = 404
        /\ StatusOf(id) \in {"queued", "processing", "failed"}
              => DownloadReturns(id, processedExists) = 400

\* One id is completed and streamed, one has a record that is not
\* completed, one has no record.
C33_Witness ==
    \E x \in Ids, y \in Ids, z \in Ids :
        /\ StatusOf(x) = "completed" /\ DownloadReturns(x, TRUE) = 200
        /\ StatusOf(y) \in {"queued", "failed"} /\ DownloadReturns(y, TRUE) = 400
        /\ StatusOf(z) = "absent" /\ DownloadReturns(z, TRUE) = 404

\* ---------------------------------------------------------------------
\* C34: delete goes through for any id, with or without a record or a
\* file; once its cancelJob has run, status answers 404 for the id, and
\* keeps answering 404 until a step in which addJob is called for the id
\* again, whatever the record was and whatever its pipeline does later.
DeleteBegins(id) == id \notin http.deleting /\ id \in http'.deleting
SubmittedNow(id) ==
    /\ Len(heap') = Len(heap) + 1
    /\ heap'[Len(heap')].videoId = id
TimerFires == Len(timers) > 0 /\ timers' = Tail(timers)
Detected == calc.stage \in {"detected", "merged", "remerged", "capped", "kept"}
C35_DetectedIntervalsValid ==
    Detected => \A i \in 1..Len(calc.silences) :
                    calc.silences[i].end > calc.silences[i].start

\* ---------------------------------------------------------------------
\* C36: detection returns min(number of parsed starts, number of parsed
\* ends) intervals, the k-th made of the k-th parsed start and the k-th
\* parsed end; and when the stream is what the engine emits for a run of
\* silences (start and end of each in turn, the last start possibly
\* without its end), each interval returned is the start and the end of
\* one and the same silence.
Emitted(stream) ==
    /\ \A k \in 1..Len(stream) :
          stream[k].kind = IF k % 2 = 1 THEN "start" ELSE "end"
    /\ \A k \in 1..(Len(stream) - 1) :
          IF k % 2 = 1 THEN stream[k].t < stream[k + 1].t
          ELSE stream[k].t <= stream[k + 1].t
CompleteSilences(stream) ==
    [k \in 1..(Len(stream) \div 2) |->
        Silence(stream[2 * k - 1].t, stream[2 * k].t)]
C36_PairsSameSilence ==
    calc.stage = "detected" =>
        LET startOffsets == ParseMarkers(calc.stream, "start")
            endOffsets == ParseMarkers(calc.stream, "end")
        IN  /\ Len(calc.silences) = Min(Len(startOffsets), Len(endOffsets))
            /\ \A k \in 1..Len(calc.silences) :
                  /\ calc.silences[k].start = startOffsets[k]
                  /\ calc.silences[k].end = endOffsets[k]
            /\ Emitted(calc.stream)
                  => \A k \in 1..Len(calc.silences) :
                        \E j \in 1..Len(CompleteSilences(calc.stream)) :
                            calc.silences[k] = CompleteSilences(calc.stream)[j]

\* ---------------------------------------------------------------------
\* C37: removeSilences passes the input through exactly when the silence
\* list it is given is empty or the keep segments are empty.  The copy is
\* a stream copy made by the engine (one process, no filter graph, no
\* encoding); when it exits with 0 the result has finalDuration =
\* originalDuration, timeSaved = 0 and percentageSaved = 0.
Removed == calc.stage = "removed"
C37_PassThroughIsStreamCopy ==
    Removed =>
        /\ calc.result.mode = "copy"
              <=> (Len(calc.capped) = 0 \/ Len(calc.segments) = 0)
        /\ calc.result.mode = "copy"
              => /\ calc.result.spawned = <<"stream copy">>
                 /\ calc.result.finalDuration = calc.result.originalDuration
                 /\ calc.result.originalDuration = calc.totalDuration
                 /\ calc.result.timeSaved = 0
                 /\ calc.result.percentageSaved = 0
        /\ calc.result.mode # "copy"
              => calc.result.spawned = <<"filter and encode">>

\* C37 as stated: the pass-through starts no engine process.
C37_Original ==
    Removed =>
        /\ calc.result.mode = "copy"
              <=> (Len(calc.capped) = 0 \/ Len(calc.segments) = 0)
        /\ calc.result.mode = "copy"
              => /\ calc.result.spawned = <<>>
                 /\ calc.result.finalDuration = calc.result.originalDuration
                 /\ calc.result.timeSaved = 0
                 /\ calc.result.percentageSaved = 0

\* A silence covers the whole input: the list is not empty, no segment is
\* kept, and the file was passed through.
C37_Witness ==
    /\ Removed
    /\ Len(calc.capped) > 0
    /\ Len(calc.segments) = 0
    /\ calc.totalDuration > 0
    /\ calc.result.mode = "copy"

\* ---------------------------------------------------------------------
\* C38: the error field of a job is absent or one of the fixed messages.
\* When a pipeline ends with a permanent failure the message is the memory
\* one if the text includes `memory` or `ENOMEM`, else the timeout one if
\* it includes `timeout` or `killed`, else the generic one.
FixedMessages == {MsgMemory, MsgTimeout, MsgGeneric, MsgMaxRetries, MsgCancelled}
HoldsRecord(p) == jobs[heap[p.job].videoId] = p.job
C38_ErrorIsFixedMessage ==
    /\ [](\A j \in 1..Len(heap) : heap[j].error \in FixedMessages \cup {NoError})
    /\ [][\A p \in BagToSet(pipes), text \in AllTexts :
            (Fail(p, text) /\ text # {} /\ HoldsRecord(p))
                => /\ heap'[p.job].status = "failed"
                   /\ heap'[p.job].error =
                        IF "memory" \in text \/ "ENOMEM" \in text THEN MsgMemory
                        ELSE IF "timeout" \in text \/ "killed" \in text
                        THEN MsgTimeout
                        ELSE MsgGeneric]_vars

\* A record has failed for good with the memory message, on its first
\* attempt and during the transformation.
C38_Witness ==
    \E x \in Ids :
        /\ StatusOf(x) = "failed" /\ Record(x).error = MsgMemory
        /\ Record(x).retries = 0
        /\ Record(x).progress = 50

====
